---- MODULE Spec2Model ----
(***************************************************************************)
(* Model of sq-encoder.py: the N-ary codec (NaryEncoder) with its          *)
(* persisted parameter file (JsonFile), the adaptive QR code generator     *)
(* (create_qr_code) and the category translator (CategoricalEncoder).      *)
(***************************************************************************)
EXTENDS Integers, Sequences, FiniteSets, TLC

\* ------------------------------------------------------------------------
\* Bounds of the model
\* ------------------------------------------------------------------------
\* largest number of categories of a table
MaxLen == 2
\* largest number of values of one category
MaxCard == 2
\* largest symbol version the encoder names
MaxVersion == 2
\* largest max_iteration a caller passes, besides the default
MaxIter == 3

\* the largest integer a caller passes to decode
MaxEnc == 8

\* ------------------------------------------------------------------------
\* Helpers: Python built-ins used by the source
\* ------------------------------------------------------------------------
RECURSIVE Pow(_, _)
\* b ** e for e >= 0
Pow(b, e) == IF e = 0 THEN 1 ELSE b * Pow(b, e - 1)

RECURSIVE SumSeq(_)
\* sum(s)
SumSeq(s) == IF s = << >> THEN 0 ELSE Head(s) + SumSeq(Tail(s))

\* max(s) of a non-empty list
MaxOf(s) == CHOOSE m \in {s[i] : i \in DOMAIN s} : \A i \in DOMAIN s : s[i] <= m

\* s[::-1]
Reverse(s) == [i \in 1..Len(s) |-> s[Len(s) + 1 - i]]

\* all lists over S of length lo..hi
SeqsOf(S, lo, hi) == UNION {[1..n -> S] : n \in lo..hi}

\* ------------------------------------------------------------------------
\* State
\* ------------------------------------------------------------------------
VARIABLES
    ln,        \* NaryEncoder.ln of the caller's codec instance
    mx,        \* NaryEncoder.mx of the caller's codec instance
    slot,      \* content of the json file at json_path: << >> when the file
               \* does not exist, else the dumped list <<ln, mx>>
    held,      \* the caller's variables indices, master and enc
    ret,       \* the last call on the codec or on its file, and its outcome
    pc,        \* create_qr_code: "idle" before the call, "loop" at the head
               \* of the while loop, "done" after the return or the raise
    qcall,     \* create_qr_code: the arguments of the call
    itercnt,   \* create_qr_code: itercnt
    mode,      \* create_qr_code: mode
    version,   \* create_qr_code: version
    qlog,      \* create_qr_code: what the call did to the encoder and the caller
    category_dict,  \* CategoricalEncoder.category_dict: the value lists of
                    \* the categories, in the order of the dictionary
    cret       \* the last call on the CategoricalEncoder and its outcome

codecVars == <<ln, mx, slot, held, ret>>

qrVars == <<pc, qcall, itercnt, mode, version, qlog>>

catVars == <<category_dict, cret>>

vars == <<ln, mx, slot, held, ret, pc, qcall, itercnt, mode, version, qlog,
          category_dict, cret>>

\* the exception open() raises in JsonFile.load when the file does not exist
FileNotFoundError == "FileNotFoundError"

\* dumped: the file as the caller's last encode left it
NoHeld == [indices |-> << >>, master |-> << >>, enc |-> 0, set |-> FALSE,
           dumped |-> << >>]

\* op: the call; arg: the argument of decode; enc, dec: the value returned;
\* loaded: decode read the file; err: the exception raised, "" when none;
\* pre: <<ln, mx>> of the instance when the call started; again: the encode
\* was given what the caller's encode before it was given; params: the list
\* the call dumped, << >> when it dumped none
Ret(op, arg, enc, dec, loaded, err, pre, again, params) ==
    [op |-> op, arg |-> arg, enc |-> enc, dec |-> dec, loaded |-> loaded,
     err |-> err, pre |-> pre, again |-> again, params |-> params]

\* ------------------------------------------------------------------------
\* JsonFile
\* ------------------------------------------------------------------------
\* JsonFile.load: open(self.path, 'r') raises when there is no file
JsonLoadFails(file) == file = << >>

\* JsonLoad with the two elements taken in the wrong order
JsonLoadSwapped(file) == <<file[2], file[1]>>

\* JsonFile.load: the data in the file
JsonLoad(file) == file

\* JsonDump with the file opened for appending
JsonDumpAppends(data) == slot \o data

\* JsonFile.dump: the file holds exactly the dumped data
JsonDump(data) == data

\* ------------------------------------------------------------------------
\* NaryEncoder
\* ------------------------------------------------------------------------
\* NaryValue with the exponents counted from 1
NaryValueFromOne(l, m) == SumSeq([k \in 1..Len(l) |-> Pow(m, k) * l[k]])

\* enc = sum([self.mx ** i * x for i, x in enumerate(l)]); enumerate is 0-based
NaryValue(l, m) == SumSeq([k \in 1..Len(l) |-> Pow(m, k - 1) * l[k]])

RECURSIVE DecodeLoop(_, _, _)
\* the loop of decode: for i in range(self.ln - 1, -1, -1), appending to dec
DecodeLoop(remainder, i, m) ==
    IF i < 0 THEN << >>
    ELSE LET div == Pow(m, i)
         IN  <<remainder \div div>> \o DecodeLoop(remainder % div, i - 1, m)

\* NaryDigits without the final dec[::-1]
NaryDigitsUnreversed(enc, n, m) == DecodeLoop(enc, n - 1, m)

\* NaryDigits with every digit reduced to the radix
NaryDigitsClamped(enc, n, m) ==
    LET d == Reverse(DecodeLoop(enc, n - 1, m))
    IN  [i \in 1..n |-> d[i] % m]

\* dec of decode under the parameters (n, m)
NaryDigits(enc, n, m) == Reverse(DecodeLoop(enc, n - 1, m))

\* EncodeParams with a radix that only grows
EncodeParamsKeepMax(l, l_master) ==
    <<Len(l), IF mx > MaxOf(l_master) THEN mx ELSE MaxOf(l_master)>>

\* self.ln and self.mx as encode sets them
EncodeParams(l, l_master) == <<Len(l), MaxOf(l_master)>>

\* NaryEncoder.__init__: the caller builds a new instance on the same path
New ==
    /\ ln' = 0
    /\ mx' = 0
    /\ ret' = Ret("new", 0, 0, << >>, FALSE, "", <<ln, mx>>, FALSE, << >>)
    /\ UNCHANGED <<slot, held>>

\* NaryEncoder.encode(l, l_master); the caller keeps l, l_master and the result
Encode(l, l_master) ==
    LET p == EncodeParams(l, l_master)
        enc == NaryValue(l, p[2])
    IN  /\ ln' = p[1]
        /\ mx' = p[2]
        /\ slot' = JsonDump(<<p[1], p[2]>>)
        /\ held' = [indices |-> l, master |-> l_master, enc |-> enc, set |-> TRUE,
                    dumped |-> JsonDump(<<p[1], p[2]>>)]
        /\ ret' = Ret("encode", 0, enc, << >>, FALSE, "", <<ln, mx>>,
                      held.set /\ l = held.indices /\ l_master = held.master,
                      <<p[1], p[2]>>)

\* encode called on another NaryEncoder instance built on the same json_path,
\* for another table: of its effects only the dump reaches this instance
OtherEncode(p) ==
    /\ slot' = JsonDump(<<p[1], p[2]>>)
    /\ ret' = Ret("other", 0, 0, << >>, FALSE, "", <<ln, mx>>, FALSE, <<p[1], p[2]>>)
    /\ UNCHANGED <<ln, mx, held>>

\* NeedsLoad with the file read on every decode
NeedsLoadAlways == TRUE

\* whether decode reads the file: both parameters still 0
NeedsLoad == ln = 0 /\ mx = 0

\* DecodeFail with the exception swallowed and an empty list returned
DecodeFailSwallowed(enc) ==
    /\ NeedsLoad
    /\ JsonLoadFails(slot)
    /\ ret' = Ret("decode", enc, 0, << >>, FALSE, "", <<ln, mx>>, FALSE, << >>)
    /\ UNCHANGED <<ln, mx, slot, held>>

\* NaryEncoder.decode(enc) when j.load() raises: nothing is assigned
DecodeFail(enc) ==
    /\ NeedsLoad
    /\ JsonLoadFails(slot)
    /\ ret' = Ret("decode", enc, 0, << >>, FALSE, FileNotFoundError, <<ln, mx>>,
                  FALSE, << >>)
    /\ UNCHANGED <<ln, mx, slot, held>>

\* NaryEncoder.decode(enc) otherwise
DecodeOk(enc) ==
    /\ NeedsLoad => ~JsonLoadFails(slot)
    /\ LET p == IF NeedsLoad THEN JsonLoad(slot) ELSE <<ln, mx>>
       IN  /\ ln' = p[1]
           /\ mx' = p[2]
           /\ ret' = Ret("decode", enc, 0, NaryDigits(enc, p[1], p[2]),
                         NeedsLoad, "", <<ln, mx>>, FALSE, << >>)
    /\ UNCHANGED <<slot, held>>

\* the (indices, master) pairs a caller passes to encode: a Selection Vector
\* and the Cardinality Vector of its table
Selections ==
    {s \in SeqsOf(0..(MaxCard - 1), 1, MaxLen) \X SeqsOf(1..MaxCard, 1, MaxLen) :
        /\ Len(s[1]) = Len(s[2])
        /\ \A i \in DOMAIN s[1] : s[1][i] < s[2][i]}

\* the parameters the encodes of those pairs dump
ParamPairs == {EncodeParams(s[1], s[2]) : s \in Selections}

CodecIdle ==
    /\ ln = 0
    /\ mx = 0
    /\ slot = << >>
    /\ held = NoHeld
    /\ ret = Ret("none", 0, 0, << >>, FALSE, "", <<0, 0>>, FALSE, << >>)

\* the integers a caller passes to decode, values of encode or not
Encs == 0..MaxEnc

\* the caller runs a selection through the codec: it encodes it (again and
\* again, or another one in its place straight after an encode) and decodes
\* the value it holds; further encodes of other tables happen on other
\* instances
\* encode of a selection, the first one or straight after an encode
EncodeAny ==
    /\ ~held.set \/ ret.op = "encode"
    /\ \E s \in Selections : Encode(s[1], s[2])

\* encode of the selection the caller holds, once more
EncodeAgain ==
    /\ held.set
    /\ Encode(held.indices, held.master)

\* ------------------------------------------------------------------------
\* create_qr_code
\* ------------------------------------------------------------------------
\* max_iteration=10
DefaultMaxIteration == 10

\* content modes of the encoder
Modes == {"numeric", "alphanumeric", "binary"}

\* words an encoder message can carry in the place of the mode it proposes:
\* the modes, and one that is not made of the letters a-z
Words == Modes \cup {"BINARY"}

\* symbol versions
Versions == 1..MaxVersion

\* values to encode
Payloads == {"['Toyota', 'coupe']", "1"}

\* an exception: tmpl is the template of its message, the other fields what
\* the message carries in the places of the template
Exc(tmpl, cur_mode, new_mode, cur_version, new_version) ==
    [tmpl |-> tmpl, cur_mode |-> cur_mode, new_mode |-> new_mode,
     cur_version |-> cur_version, new_version |-> new_version]

\* no exception
NoError == Exc("", "", "", 0, 0)

\* ValueError('max iteration exceeded')
MaxIterationError == Exc("max iteration exceeded", "", "", 0, 0)

\* 'The content provided cannot be encoded with the mode {m}, it can only be
\* encoded as {w}.'
ModeError(m, w) == Exc("The content provided cannot be encoded with the mode", m, w, 0, 0)

\* 'The data will not fit inside a version {v} code with the given encoding
\* and error level (the code must be at least a version {w}).'
VersionError(v, w) == Exc("The data will not fit inside a version", "", "", v, w)

\* any other exception of the encoder
OtherError == Exc("other", "", "", 0, 0)

\* what pyqrcode.create can raise
EncoderErrors ==
    {ModeError(m, w) : m \in Modes, w \in Words}
    \cup {VersionError(v, w) : v \in Versions, w \in Versions}
    \cup {OtherError}

\* ([a-z]+) matches the whole word
IsLowerWord(w) == w \in Modes

\* MatchMode with a pattern that matches no message of the encoder
MatchModeNever(ex, m) == FALSE

\* MatchMode with the mode of the message not compared with the current mode
MatchModeAnyMode(ex, m) ==
    /\ ex.tmpl = ModeError(m, m).tmpl
    /\ IsLowerWord(ex.new_mode)

\* re.match of the first pattern, built from the current mode m
MatchMode(ex, m) ==
    /\ ex.tmpl = ModeError(m, m).tmpl
    /\ ex.cur_mode = m
    /\ IsLowerWord(ex.new_mode)

\* re.match of the second pattern, built from the current version v
MatchVersion(ex, v) ==
    /\ ex.tmpl = VersionError(v, v).tmpl
    /\ ex.cur_version = v

\* LimitReached with > in the place of >=
LimitPassed(n) == n > qcall.max_iteration

\* if itercnt >= max_iteration
LimitReached(n) == n >= qcall.max_iteration

\* Adjusts with the flag ignored
AdjustsAlways == TRUE

\* if not adjust: raise ex
Adjusts == qcall.adjust

\* CreateArgs with the mode and version the caller passed
CreateArgsInitial == [value |-> qcall.value, error |-> qcall.error,
                      version |-> qcall.version, mode |-> qcall.mode]

\* the arguments of pyqrcode.create in this iteration
CreateArgs == [value |-> qcall.value, error |-> qcall.error,
               version |-> version, mode |-> mode]

\* the arguments of code.png
PngArgs == [path |-> qcall.path, scale |-> qcall.scale,
            module_color |-> qcall.module_color, background |-> qcall.background]

\* attempts: calls of pyqrcode.create; excs: those that raised; adopted: those
\* whose exception one of the patterns matched; try: the arguments of the last
\* one; ex: the last exception it raised; accepted: the last one returned a
\* code; png: the calls of code.png; raised: the exception the call ended with
NoLog == [attempts |-> 0, excs |-> 0, adopted |-> 0,
          try |-> [value |-> "", error |-> "", version |-> 0, mode |-> ""],
          ex |-> NoError, accepted |-> FALSE, png |-> << >>, raised |-> NoError]

NoCall == [value |-> "", error |-> "", version |-> 0, mode |-> "", path |-> "",
           scale |-> 0, module_color |-> << >>, background |-> << >>,
           adjust |-> FALSE, max_iteration |-> 0]

QrIdle ==
    /\ pc = "idle"
    /\ qcall = NoCall
    /\ itercnt = 0
    /\ mode = ""
    /\ version = 0
    /\ qlog = NoLog

\* create_qr_code(value, error, version, mode, path, ..., adjust, max_iteration)
Call(value, ver, m, adj, n) ==
    /\ pc = "idle"
    /\ pc' = "loop"
    /\ qcall' = [value |-> value, error |-> "L", version |-> ver, mode |-> m,
                 path |-> "raw_data.png", scale |-> 5,
                 module_color |-> <<0, 0, 0, 128>>,
                 background |-> <<255, 255, 255>>,
                 adjust |-> adj, max_iteration |-> n]
    /\ itercnt' = 0
    /\ mode' = m
    /\ version' = ver
    /\ qlog' = NoLog

\* IterLimit starting the count again in the place of raising
IterLimitRestarts ==
    /\ pc = "loop"
    /\ LimitReached(itercnt + 1)
    /\ itercnt' = 0
    /\ qlog' = NoLog
    /\ UNCHANGED <<pc, qcall, mode, version>>

\* an iteration that ends in raise ValueError('max iteration exceeded')
IterLimit ==
    /\ pc = "loop"
    /\ LimitReached(itercnt + 1)
    /\ itercnt' = itercnt + 1
    /\ pc' = "done"
    /\ qlog' = [qlog EXCEPT !.raised = MaxIterationError]
    /\ UNCHANGED <<qcall, mode, version>>

\* AttemptOk without the break: the loop goes on after code.png
AttemptOkNoBreak ==
    /\ pc = "loop"
    /\ ~LimitReached(itercnt + 1)
    /\ itercnt' = itercnt + 1
    /\ qlog' = [qlog EXCEPT !.attempts = @ + 1, !.try = CreateArgs,
                            !.accepted = TRUE, !.png = Append(@, PngArgs)]
    /\ UNCHANGED <<pc, qcall, mode, version>>

\* an iteration in which pyqrcode.create returns a code: code.png, break
AttemptOk ==
    /\ pc = "loop"
    /\ ~LimitReached(itercnt + 1)
    /\ itercnt' = itercnt + 1
    /\ pc' = "done"
    /\ qlog' = [qlog EXCEPT !.attempts = @ + 1, !.try = CreateArgs,
                            !.accepted = TRUE, !.png = Append(@, PngArgs)]
    /\ UNCHANGED <<qcall, mode, version>>

\* an iteration in which pyqrcode.create raises ex
AttemptRaise(ex) ==
    /\ pc = "loop"
    /\ ~LimitReached(itercnt + 1)
    /\ itercnt' = itercnt + 1
    /\ LET seen == [qlog EXCEPT !.attempts = @ + 1, !.excs = @ + 1,
                                !.try = CreateArgs, !.ex = ex]
       IN  IF ~Adjusts
           THEN /\ pc' = "done"
                /\ qlog' = [seen EXCEPT !.raised = ex]
                /\ UNCHANGED <<mode, version>>
           ELSE IF MatchMode(ex, mode)
           THEN /\ mode' = ex.new_mode
                /\ qlog' = [seen EXCEPT !.adopted = @ + 1]
                /\ UNCHANGED <<pc, version>>
           ELSE IF MatchVersion(ex, version)
           THEN /\ version' = ex.new_version
                /\ qlog' = [seen EXCEPT !.adopted = @ + 1]
                /\ UNCHANGED <<pc, mode>>
           ELSE /\ pc' = "done"
                /\ qlog' = [seen EXCEPT !.raised = ex]
                /\ UNCHANGED <<mode, version>>
    /\ UNCHANGED qcall

\* the max_iteration values callers pass
Budgets == 0..MaxIter \cup {DefaultMaxIteration}

\* ------------------------------------------------------------------------
\* CategoricalEncoder
\* ------------------------------------------------------------------------
\* the exception list.index raises
ValueError == "ValueError"

\* the exception list[i] raises
IndexError == "IndexError"

\* values of the categories
Values == {"coupe", "sedan"}

\* value lists of one category: not empty, a value may occur twice. The code
\* only compares values, so the lists are taken up to the renaming of values:
\* each starts with the first value
ValueLists == {v \in SeqsOf(Values, 1, MaxCard) : v[1] = "coupe"}

\* tables: one value list per category
Tables == SeqsOf(ValueLists, 1, MaxLen)

\* indices a caller passes to decode: in range, negative, too large
IndexRange == (0 - MaxCard)..MaxCard

\* l in v
Has(v, l) == \E i \in DOMAIN v : v[i] = l

\* IndexOf counting the positions from 1
IndexOfFromOne(v, l) == CHOOSE i \in DOMAIN v : v[i] = l /\ \A j \in 1..(i - 1) : v[j] # l

\* v.index(l): the 0-based position of the first l in v
IndexOf(v, l) ==
    (CHOOSE i \in DOMAIN v : v[i] = l /\ \A j \in 1..(i - 1) : v[j] # l) - 1

\* whether v[i] raises: Python counts a negative i from the end
ItemFails(v, i) == i >= Len(v) \/ i < 0 - Len(v)

\* v[i]
Item(v, i) == IF i >= 0 THEN v[i + 1] ELSE v[Len(v) + i + 1]

\* zip(a, b) stops at the shorter of the two
ZipLen(a, b) == IF Len(a) <= Len(b) THEN Len(a) ELSE Len(b)

\* lst = [v.index(l) for l, v in zip(category_list, values)]
Lst(category_list) ==
    [k \in 1..ZipLen(category_list, category_dict) |->
        IndexOf(category_dict[k], category_list[k])]

\* lst_master = [len(v) for v in values]
LstMaster == [k \in 1..Len(category_dict) |-> Len(category_dict[k])]

\* [v[i] for i, v in zip(category_indices, values)]
Picked(category_indices) ==
    [k \in 1..ZipLen(category_indices, category_dict) |->
        Item(category_dict[k], category_indices[k])]

\* op: the call; list: the category_list of encode; indices, master: what
\* encode returned or decode was given; out: what decode returned; err: the
\* exception raised, "" when none
CRet(op, list, indices, master, out, err) ==
    [op |-> op, list |-> list, indices |-> indices, master |-> master,
     out |-> out, err |-> err]

CatIdle ==
    /\ category_dict = << >>
    /\ cret = CRet("none", << >>, << >>, << >>, << >>, "")

\* CatEncodeFail returning the indices found before the missing value
CatEncodeFailPartial(category_list) ==
    /\ cret.op = "none"
    /\ \E k \in 1..ZipLen(category_list, category_dict) :
          /\ ~Has(category_dict[k], category_list[k])
          /\ \A j \in 1..(k - 1) : Has(category_dict[j], category_list[j])
          /\ cret' = CRet("encode", category_list,
                          [j \in 1..(k - 1) |->
                              IndexOf(category_dict[j], category_list[j])],
                          LstMaster, << >>, "")
    /\ UNCHANGED category_dict

\* CategoricalEncoder.encode(category_list) when some v.index(l) raises
CatEncodeFail(category_list) ==
    /\ cret.op = "none"
    /\ \E k \in 1..ZipLen(category_list, category_dict) :
          ~Has(category_dict[k], category_list[k])
    /\ cret' = CRet("encode", category_list, << >>, << >>, << >>, ValueError)
    /\ UNCHANGED category_dict

\* CategoricalEncoder.encode(category_list) otherwise
CatEncodeOk(category_list) ==
    /\ cret.op = "none"
    /\ \A k \in 1..ZipLen(category_list, category_dict) :
          Has(category_dict[k], category_list[k])
    /\ cret' = CRet("encode", category_list, Lst(category_list), LstMaster, << >>, "")
    /\ UNCHANGED category_dict

\* CategoricalEncoder.decode(category_indices) when some v[i] raises
CatDecodeFail(category_indices) ==
    /\ \E k \in 1..ZipLen(category_indices, category_dict) :
          ItemFails(category_dict[k], category_indices[k])
    /\ cret' = CRet("decode", cret.list, category_indices, cret.master, << >>, IndexError)
    /\ UNCHANGED category_dict

\* CategoricalEncoder.decode(category_indices) otherwise
CatDecodeOk(category_indices) ==
    /\ \A k \in 1..ZipLen(category_indices, category_dict) :
          ~ItemFails(category_dict[k], category_indices[k])
    /\ cret' = CRet("decode", cret.list, category_indices, cret.master,
                    Picked(category_indices), "")
    /\ UNCHANGED category_dict

\* the category lists a caller passes to encode: one value per category
CategoryLists == [DOMAIN category_dict -> Values]

\* the index lists a caller passes to decode: one index per category
IndexLists == [DOMAIN category_dict -> IndexRange]

\* decode of the indices encode has just returned
CatDecodeBack ==
    /\ cret.op = "encode"
    /\ cret.err = ""
    /\ CatDecodeFail(cret.indices) \/ CatDecodeOk(cret.indices)

\* ------------------------------------------------------------------------
\* Specifications
\* ------------------------------------------------------------------------
CodecInit == CodecIdle /\ QrIdle /\ CatIdle

CodecNext ==
    \/ New /\ UNCHANGED <<qrVars, catVars>>
    \/ EncodeAny /\ UNCHANGED <<qrVars, catVars>>
    \/ EncodeAgain /\ UNCHANGED <<qrVars, catVars>>
    \/ (\E p \in ParamPairs : OtherEncode(p)) /\ UNCHANGED <<qrVars, catVars>>
    \/ DecodeFail(held.enc) /\ UNCHANGED <<qrVars, catVars>>
    \/ DecodeOk(held.enc) /\ UNCHANGED <<qrVars, catVars>>

CodecSpec == CodecInit /\ [][CodecNext]_vars

\* NaryEncoder.decode given any integer, under the parameters encodes leave
DigitsInit == CodecIdle /\ QrIdle /\ CatIdle

DigitsNext ==
    \/ New /\ UNCHANGED <<qrVars, catVars>>
    \/ (\E p \in ParamPairs : OtherEncode(p)) /\ UNCHANGED <<qrVars, catVars>>
    \/ (\E enc \in Encs : DecodeFail(enc)) /\ UNCHANGED <<qrVars, catVars>>
    \/ (\E enc \in Encs : DecodeOk(enc)) /\ UNCHANGED <<qrVars, catVars>>

DigitsSpec == DigitsInit /\ [][DigitsNext]_vars

QrInit == CodecIdle /\ QrIdle /\ CatIdle

QrNext ==
    \/ (\E value \in Payloads, ver \in Versions, m \in Modes, adj \in BOOLEAN,
           n \in Budgets : Call(value, ver, m, adj, n)) /\ UNCHANGED <<codecVars, catVars>>
    \/ IterLimit /\ UNCHANGED <<codecVars, catVars>>
    \/ AttemptOk /\ UNCHANGED <<codecVars, catVars>>
    \/ (\E ex \in EncoderErrors : AttemptRaise(ex)) /\ UNCHANGED <<codecVars, catVars>>

QrSpec == QrInit /\ [][QrNext]_vars

\* create_qr_code runs on: every statement of the loop and every call of
\* pyqrcode.create and code.png returns or raises
QrLiveSpec == QrInit /\ [][QrNext]_vars /\ WF_vars(QrNext)

\* CategoricalEncoder(category_dict): one encoder per table
CatInit ==
    /\ CodecIdle
    /\ QrIdle
    /\ category_dict \in Tables
    /\ cret = CRet("none", << >>, << >>, << >>, << >>, "")

CatNext ==
    \/ (\E cl \in CategoryLists : CatEncodeFail(cl)) /\ UNCHANGED <<codecVars, qrVars>>
    \/ (\E cl \in CategoryLists : CatEncodeOk(cl)) /\ UNCHANGED <<codecVars, qrVars>>
    \/ CatDecodeBack /\ UNCHANGED <<codecVars, qrVars>>
    \/ (\E ix \in IndexLists : cret.op = "none" /\ CatDecodeFail(ix))
          /\ UNCHANGED <<codecVars, qrVars>>
    \/ (\E ix \in IndexLists : cret.op = "none" /\ CatDecodeOk(ix))
          /\ UNCHANGED <<codecVars, qrVars>>

CatSpec == CatInit /\ [][CatNext]_vars

\* ------------------------------------------------------------------------
\* Properties of the codec
\* ------------------------------------------------------------------------
\* v is a Selection Vector of a table with the Cardinality Vector c
IsSelection(v, c) ==
    /\ Len(v) >= 1
    /\ Len(v) = Len(c)
    /\ \A i \in DOMAIN v : 0 <= v[i] /\ v[i] < c[i]

\* r is the largest element of c
IsMaxOf(r, c) == (\E i \in DOMAIN c : c[i] = r) /\ (\A i \in DOMAIN c : c[i] <= r)

RECURSIVE PositionalSum(_, _)
\* v[1] * r^0 + v[2] * r^1 + ... by Horner's rule
PositionalSum(v, r) ==
    IF v = << >> THEN 0 ELSE Head(v) + r * PositionalSum(Tail(v), r)

\* C1: a decode of the value the caller got from encode(v, c), v a Selection
\* Vector of c, returns v whenever the (length, radix) in force in the
\* decoding instance is the pair that encode produced, be it the instance
\* that encoded or a new one that read the file.
CodecRoundTrip ==
    ( /\ ret.op = "decode"
      /\ ret.err = ""
      /\ held.set
      /\ ret.arg = held.enc
      /\ IsSelection(held.indices, held.master)
      /\ ln = Len(held.indices)
      /\ IsMaxOf(mx, held.master) )
    => ret.dec = held.indices

\* C1 witness: a new instance loaded the parameters and decoded a vector of
\* full length whose last index is not 0
CodecRoundTripWitness ==
    /\ ret.op = "decode"
    /\ ret.loaded
    /\ held.set
    /\ ret.arg = held.enc
    /\ Len(held.indices) = MaxLen
    /\ held.indices[MaxLen] > 0
    /\ ln = Len(held.indices)
    /\ IsMaxOf(mx, held.master)
    /\ ret.dec = held.indices

DecodeWithoutParamsFails ==
    (ret.op = "decode" /\ JsonLoadFails(slot))
    => /\ ret.err = FileNotFoundError
       /\ ret.dec = << >>
       /\ ret.pre = <<0, 0>>
       /\ ln = 0 /\ mx = 0

\* C4 witness: a decode that failed on the missing file
DecodeWithoutParamsFailsWitness ==
    /\ ret.op = "decode"
    /\ ret.err = FileNotFoundError
    /\ slot = << >>
    /\ ~held.set

\* C5: straight after an encode, ln is the number of indices passed, mx is
\* the largest cardinality passed, and the file holds exactly these two,
\* whatever the instance held before.
RadixCorrect ==
    ret.op = "encode" =>
        /\ ln = Len(held.indices)
        /\ IsMaxOf(mx, held.master)
        /\ slot = <<Len(held.indices), mx>>

\* C5 witness: an encode on an instance that held a larger radix and another
\* length, from an earlier encode or load
RadixCorrectWitness ==
    /\ ret.op = "encode"
    /\ ret.pre[2] > mx
    /\ ret.pre[1] # ln
    /\ ret.pre[1] > 0
    /\ IsMaxOf(mx, held.master)

\* ------------------------------------------------------------------------
\* Properties of create_qr_code
\* ------------------------------------------------------------------------
\* every attempt so far was rejected with a message one of the patterns matched
AllRejectedRecognised == qlog.adopted = qlog.attempts

\* the message of ex is neither template as instantiated with mode m and
\* version v
Unclassified(ex, m, v) ==
    /\ ~( /\ ex.tmpl = "The content provided cannot be encoded with the mode"
          /\ ex.cur_mode = m
          /\ ex.new_mode \in {"numeric", "alphanumeric", "binary"} )
    /\ ~( /\ ex.tmpl = "The data will not fit inside a version"
          /\ ex.cur_version = v )

\* C6: with adjust and the default budget, started in mode binary, once the
\* first attempt was rejected with the mode mismatch naming numeric the call
\* goes on in mode numeric, and when the next attempt is accepted the call
\* ends in success after two attempts, the second one in mode numeric, and
\* one render.
QrConverges ==
    ( /\ pc # "idle"
      /\ qcall.adjust
      /\ qcall.max_iteration = DefaultMaxIteration
      /\ qcall.mode = "binary"
      /\ qlog.excs = 1
      /\ qlog.ex = ModeError("binary", "numeric") )
    => /\ qlog.raised = NoError
       /\ mode = "numeric"
       /\ version = qcall.version
       /\ IF qlog.accepted
          THEN /\ pc = "done"
               /\ qlog.attempts = 2
               /\ itercnt = 2
               /\ qlog.try.mode = "numeric"
               /\ Len(qlog.png) = 1
          ELSE /\ pc = "loop"
               /\ qlog.attempts = 1

\* C6 witness: the call ended in success on the second attempt
QrConvergesWitness ==
    /\ pc = "done"
    /\ qcall.adjust
    /\ qcall.max_iteration = DefaultMaxIteration
    /\ qcall.mode = "binary"
    /\ qlog.excs = 1
    /\ qlog.ex = ModeError("binary", "numeric")
    /\ qlog.accepted
    /\ qlog.attempts = 2
    /\ qlog.try.mode = "numeric"
    /\ qlog.raised = NoError

\* C7 as stated: the call fails with 'max iteration exceeded' exactly when
\* itercnt reaches max_iteration, and an encoder whose every rejection is
\* recognised makes it end that way.
QrBoundAsStated ==
    /\ (qcall.adjust /\ qlog.raised = MaxIterationError)
           => itercnt = qcall.max_iteration
    /\ (pc = "done" /\ qcall.adjust /\ AllRejectedRecognised)
           => qlog.raised = MaxIterationError

\* C7 amended: for max_iteration >= 1 the call fails with 'max iteration
\* exceeded' exactly when itercnt reaches max_iteration, the loop never being
\* entered again at that count; for max_iteration <= 0 it fails at itercnt 1;
\* an encoder whose every rejection is recognised makes it end that way.
QrBound ==
    /\ qlog.raised = MaxIterationError =>
          itercnt = (IF qcall.max_iteration >= 1 THEN qcall.max_iteration ELSE 1)
    /\ (pc = "loop" /\ qcall.max_iteration >= 1) => itercnt < qcall.max_iteration
    /\ (pc = "done" /\ qcall.adjust /\ AllRejectedRecognised)
           => qlog.raised = MaxIterationError

\* C7 witness: every attempt was rejected and recognised, and the call failed
\* at the limit after more than one attempt
QrBoundWitness ==
    /\ pc = "done"
    /\ qcall.adjust
    /\ AllRejectedRecognised
    /\ qlog.attempts >= 2
    /\ qlog.raised = MaxIterationError
    /\ itercnt = qcall.max_iteration

\* C8: with adjust, an exception of the encoder that neither pattern matches
\* ends the call: it is raised as it is, after no further attempt, with mode
\* and version as they were in the attempt, and nothing rendered.
QrUnclassifiedFatal ==
    ( /\ pc # "idle"
      /\ qcall.adjust
      /\ qlog.excs >= 1
      /\ ~qlog.accepted
      /\ Unclassified(qlog.ex, qlog.try.mode, qlog.try.version) )
    => /\ pc = "done"
       /\ qlog.raised = qlog.ex
       /\ mode = qlog.try.mode
       /\ version = qlog.try.version
       /\ qlog.png = << >>
       /\ qlog.attempts = itercnt
       /\ qlog.adopted = qlog.attempts - 1

\* C8 witness: after one adopted mode, a mode message about another mode than
\* the current one was raised to the caller with iterations left
QrUnclassifiedFatalWitness ==
    /\ pc = "done"
    /\ qcall.adjust
    /\ qcall.max_iteration = DefaultMaxIteration
    /\ qlog.attempts = 2
    /\ qlog.ex.tmpl = "The content provided cannot be encoded with the mode"
    /\ qlog.ex.cur_mode # qlog.try.mode
    /\ qlog.ex.new_mode \in Modes
    /\ qlog.raised = qlog.ex

\* C9: with adjust = False, the first exception of the encoder, whatever it
\* is, is raised as it is after that one attempt; mode and version are those
\* of the call and nothing is rendered.
QrNoAdjustRaises ==
    (pc # "idle" /\ ~qcall.adjust /\ qlog.excs >= 1)
    => /\ pc = "done"
       /\ qlog.raised = qlog.ex
       /\ qlog.attempts = 1
       /\ qlog.excs = 1
       /\ itercnt = 1
       /\ ~qlog.accepted
       /\ qlog.png = << >>
       /\ mode = qcall.mode
       /\ version = qcall.version

\* C9 witness: a capacity mismatch about the current version, which adjust
\* would have adopted, was raised to the caller
QrNoAdjustRaisesWitness ==
    /\ pc = "done"
    /\ ~qcall.adjust
    /\ qlog.raised = VersionError(version, MaxVersion)
    /\ version < MaxVersion
    /\ qlog.attempts = 1

\* ------------------------------------------------------------------------
\* Properties of CategoricalEncoder
\* ------------------------------------------------------------------------
\* list holds one value per category, taken from that category's list
ValidChoice(list) ==
    /\ Len(list) = Len(category_dict)
    /\ \A k \in DOMAIN list : \E i \in DOMAIN category_dict[k] : category_dict[k][i] = list[k]

\* indices and master are a Selection Vector and the Cardinality Vector of
\* the table
InTableRange(indices, master) ==
    /\ Len(indices) = Len(category_dict)
    /\ Len(master) = Len(category_dict)
    /\ \A k \in DOMAIN category_dict :
          /\ master[k] = Len(category_dict[k])
          /\ 0 <= indices[k]
          /\ indices[k] < master[k]

\* C3: encode of one value per category, each from its category's list,
\* returns indices with 0 <= indices[i] < cardinalities[i], cardinalities[i]
\* being the length of category i's list, and decode of these indices
\* returns the values selected.
CatRoundTrip ==
    /\ (cret.op = "encode" /\ ValidChoice(cret.list)) =>
          /\ cret.err = ""
          /\ InTableRange(cret.indices, cret.master)
    /\ (cret.op = "decode" /\ ValidChoice(cret.list)) =>
          /\ cret.err = ""
          /\ InTableRange(cret.indices, cret.master)
          /\ cret.out = cret.list

\* C3 witness: a selection of full length, whose last value is not the first
\* of its category, was encoded and decoded back
CatRoundTripWitness ==
    /\ cret.op = "decode"
    /\ ValidChoice(cret.list)
    /\ Len(cret.list) = MaxLen
    /\ cret.indices[MaxLen] > 0
    /\ cret.out = cret.list

\* C10: decode of one index per category raises IndexError exactly when some
\* index lies outside [0, len(category_list)), negative indices included, and
\* returns the values at the indices otherwise.
CatDecodeRangeChecked ==
    (cret.op = "decode" /\ Len(cret.indices) = Len(category_dict)) =>
        /\ cret.err = IndexError <=>
              \E k \in DOMAIN category_dict :
                  cret.indices[k] < 0 \/ cret.indices[k] >= Len(category_dict[k])
        /\ cret.err = "" =>
              \A k \in DOMAIN category_dict :
                  cret.out[k] = category_dict[k][cret.indices[k] + 1]

\* some value of list is not in the value list of its category
SomeAbsent(list) ==
    \E k \in DOMAIN category_dict :
        /\ k <= Len(list)
        /\ \A i \in DOMAIN category_dict[k] : category_dict[k][i] # list[k]

\* C11: encode of a category list in which the value selected for some
\* category is absent from that category's value list raises ValueError,
\* returns neither the indices nor the cardinalities, and leaves the table
\* as it was.
CatEncodeAbsentFails ==
    [][(cret'.op = "encode" /\ cret.op = "none" /\ SomeAbsent(cret'.list)) =>
          /\ cret'.err = ValueError
          /\ cret'.indices = << >>
          /\ cret'.master = << >>
          /\ cret'.out = << >>
          /\ category_dict' = category_dict]_vars

\* C11 witness: an encode failed on the last category of a full table, the
\* values selected for the categories before it being in their lists
CatEncodeAbsentFailsWitness ==
    /\ cret.op = "encode"
    /\ cret.err = ValueError
    /\ Len(category_dict) = MaxLen
    /\ Len(cret.list) = MaxLen
    /\ \A k \in 1..(MaxLen - 1) :
          \E i \in DOMAIN category_dict[k] : category_dict[k][i] = cret.list[k]
    /\ \A i \in DOMAIN category_dict[MaxLen] :
          category_dict[MaxLen][i] # cret.list[MaxLen]
    /\ cret.indices = << >>
    /\ cret.master = << >>

\* C12: encode of the selection and cardinalities the caller's encode before
\* it was given, by the same instance or by a new one, whatever was encoded,
\* loaded or left in the file in between, returns the integer the first
\* encode returned and leaves the file as the first encode left it.
EncodeDeterministic ==
    [][(ret'.op = "encode" /\ held.set /\ held'.indices = held.indices
            /\ held'.master = held.master) =>
          /\ ret'.enc = held.enc
          /\ slot' = held.dumped
          /\ held'.dumped = held.dumped]_vars

\* C12 witness: the selection was encoded again by an instance that held
\* other parameters than the selection's, the file holding other parameters
\* too before the call
EncodeDeterministicWitness ==
    /\ ret.op = "encode"
    /\ ret.again
    /\ ret.pre # <<0, 0>>
    /\ ret.pre # <<ln, mx>>
    /\ ret.enc = held.enc
    /\ ret.enc > 0
    /\ slot = held.dumped

\* ex is a mode-mismatch rejection of an attempt made with mode m
ModeMismatch(ex, m) ==
    /\ ex.tmpl = "The content provided cannot be encoded with the mode"
    /\ ex.cur_mode = m
    /\ ex.new_mode \in {"numeric", "alphanumeric", "binary"}

\* ex is a capacity-mismatch rejection of an attempt made with version v
CapacityMismatch(ex, v) ==
    /\ ex.tmpl = "The data will not fit inside a version"
    /\ ex.cur_version = v

\* C13: with adjust on, the attempt after a mode-mismatch rejection is made
\* with the mode the rejection names and the version of the rejected
\* attempt; the attempt after a capacity-mismatch rejection is made with the
\* version the rejection names and the mode of the rejected attempt; every
\* attempt of a call is made with the call's payload and error level.
QrRetryTransitions ==
    [][(qlog'.attempts = qlog.attempts + 1) =>
          /\ qlog'.try.value = qcall.value
          /\ qlog'.try.error = qcall.error
          /\ (qlog.attempts >= 1 /\ qcall.adjust) =>
                /\ qlog'.try.value = qlog.try.value
                /\ qlog'.try.error = qlog.try.error
                /\ ModeMismatch(qlog.ex, qlog.try.mode) =>
                      /\ qlog'.try.mode = qlog.ex.new_mode
                      /\ qlog'.try.version = qlog.try.version
                /\ CapacityMismatch(qlog.ex, qlog.try.version) =>
                      /\ qlog'.try.version = qlog.ex.new_version
                      /\ qlog'.try.mode = qlog.try.mode]_vars

\* C13 witness: a third attempt was made, after a mode-mismatch and a
\* capacity-mismatch rejection, with a mode and a version that both differ
\* from the caller's
QrRetryTransitionsWitness ==
    /\ qcall.adjust
    /\ qlog.attempts = 3
    /\ qlog.try.mode # qcall.mode
    /\ qlog.try.version # qcall.version
    /\ qlog.try.mode = mode
    /\ qlog.try.value = qcall.value

\* C14: code.png is called once, right after the first attempt that returns
\* a code, with the path, scale, module colour and background the caller
\* passed; no attempt and no second code.png follows it; a call that ends in
\* 'max iteration exceeded' or in a raised exception of the encoder has
\* called code.png not at all.
QrRendersOnce ==
    /\ [](pc # "idle" =>
            /\ Len(qlog.png) <= 1
            /\ qlog.accepted <=> Len(qlog.png) = 1
            /\ qlog.accepted =>
                  /\ pc = "done"
                  /\ qlog.raised = NoError
                  /\ qlog.attempts = qlog.excs + 1
                  /\ qlog.png[1].path = qcall.path
                  /\ qlog.png[1].scale = qcall.scale
                  /\ qlog.png[1].module_color = qcall.module_color
                  /\ qlog.png[1].background = qcall.background
            /\ qlog.raised # NoError => qlog.png = << >>
            /\ (pc = "done" /\ ~qlog.accepted) => qlog.raised # NoError)
    /\ [][qlog.accepted =>
            /\ qlog'.attempts = qlog.attempts
            /\ qlog'.png = qlog.png]_vars

\* C14 witness: a call rendered after two rejected attempts
QrRendersOnceWitness ==
    /\ pc = "done"
    /\ qlog.accepted
    /\ qlog.excs = 2
    /\ qlog.attempts = 3
    /\ Len(qlog.png) = 1
    /\ qlog.png[1].path = "raw_data.png"

\* what a step does to the file, by the call it is a step of
SlotStep ==
    /\ ret'.op = "encode" =>
          /\ Len(slot') = 2
          /\ slot'[1] = Len(held'.indices)
          /\ IsMaxOf(slot'[2], held'.master)
    /\ ret'.op = "other" => slot' = ret'.params
    /\ ret'.op \in {"decode", "new"} => slot' = slot

\* C15: the file is absent until the first encode; every encode, by this
\* instance or by another one on the same path, leaves in it exactly the
\* [length, radix] of that encode, whatever it held; a decode and a
\* construction leave it as it was. The file thus holds the parameters of
\* the most recent encode.
SingleSlot ==
    /\ slot = << >>
    /\ [](slot = << >> => (~held.set /\ ret.op \notin {"encode", "other"}))
    /\ [][SlotStep]_vars

\* C15 witness: an encode replaced the parameters another encode had left in
\* the file, both values differing, and a decode that loaded them left them
\* there
SingleSlotWitness ==
    /\ ret.op = "decode"
    /\ ret.loaded
    /\ held.set
    /\ Len(slot) = 2
    /\ slot = <<ln, mx>>
    /\ slot[1] # held.dumped[1]
    /\ slot[2] # held.dumped[2]

\* d is the list of n digits of x to the radix r, lowest first, the highest
\* digit taking what is left
IsDigitsOf(d, x, n, r) ==
    /\ Len(d) = n
    /\ PositionalSum(d, r) = x
    /\ \A i \in 1..(n - 1) : 0 <= d[i] /\ d[i] < r

\* C16: decode reads the file exactly when ln and mx are both 0 at the call;
\* an instance that holds parameters from an encode or a load decodes with
\* them and keeps them, whatever the file holds by then.
LazyLoad ==
    ret.op = "decode" =>
        /\ (ret.loaded \/ ret.err # "") <=> ret.pre = <<0, 0>>
        /\ ret.pre # <<0, 0>> =>
              /\ ret.err = ""
              /\ <<ln, mx>> = ret.pre
              /\ IsDigitsOf(ret.dec, ret.arg, ret.pre[1], ret.pre[2])
        /\ ret.loaded =>
              /\ <<ln, mx>> = slot
              /\ IsDigitsOf(ret.dec, ret.arg, slot[1], slot[2])

\* C16 witness: the instance that encoded decoded its value back to the
\* selection after another encode had put parameters of another length and
\* radix into the file
LazyLoadWitness ==
    /\ ret.op = "decode"
    /\ ~ret.loaded
    /\ ret.err = ""
    /\ held.set
    /\ ret.pre = held.dumped
    /\ slot[1] # ln
    /\ slot[2] # mx
    /\ ret.dec = held.indices
    /\ ret.arg > 0

\* C17: when the file holds the parameters of another encode than the
\* caller's, a new instance decodes the caller's value without an exception:
\* it returns the digits of the value under the parameters in the file,
\* which need not be the selection encoded, and keeps the parameters of the
\* file.
StaleSlotUndetected ==
    ( /\ ret.op = "decode"
      /\ held.set
      /\ ret.pre = <<0, 0>>
      /\ slot # << >>
      /\ slot # held.dumped )
    => /\ ret.err = ""
       /\ ret.loaded
       /\ ret.arg = held.enc
       /\ IsDigitsOf(ret.dec, held.enc, slot[1], slot[2])
       /\ ln = slot[1]
       /\ mx = slot[2]

\* C17 witness: a new instance decoded the caller's value under parameters of
\* another encode and returned, without an exception, a list of the
\* selection's length that is not the selection
StaleSlotUndetectedWitness ==
    /\ ret.op = "decode"
    /\ held.set
    /\ ret.loaded
    /\ slot # held.dumped
    /\ ret.err = ""
    /\ Len(ret.dec) = Len(held.indices)
    /\ ret.dec # held.indices

\* the three ways a call of create_qr_code ends
Rendered == qlog.accepted /\ Len(qlog.png) = 1 /\ qlog.raised = NoError

EncoderFailed ==
    /\ qlog.raised # NoError
    /\ qlog.raised.tmpl # "max iteration exceeded"
    /\ qlog.raised = qlog.ex
    /\ qlog.png = << >>

MaxIterationExceeded ==
    /\ qlog.raised.tmpl = "max iteration exceeded"
    /\ qlog.png = << >>

\* C18: whatever max_iteration is and whatever pyqrcode.create answers, a
\* call of create_qr_code that runs on ends, and it ends in exactly one of:
\* rendered, the encoder's exception raised, 'max iteration exceeded' raised.
QrTerminates ==
    /\ (pc = "loop") ~> (pc = "done")
    /\ [](pc = "done" =>
            /\ Rendered \/ EncoderFailed \/ MaxIterationExceeded
            /\ ~(Rendered /\ EncoderFailed)
            /\ ~(Rendered /\ MaxIterationExceeded)
            /\ ~(EncoderFailed /\ MaxIterationExceeded))
    /\ [][pc = "done" => pc' = "done"]_vars

\* C18 witness: a call whose every attempt was rejected with a recognised
\* rejection ended when the largest budget ran out
QrTerminatesWitness ==
    /\ pc = "done"
    /\ qcall.max_iteration = DefaultMaxIteration
    /\ MaxIterationExceeded
    /\ qlog.excs = DefaultMaxIteration - 1

\* C19: a call with max_iteration = N calls pyqrcode.create at most N - 1
\* times; a code returned by the k-th call is rendered only when k < N; with
\* N <= 1 the call raises 'max iteration exceeded' and pyqrcode.create is
\* never called.
QrAttemptBudget ==
    pc # "idle" =>
        /\ qcall.max_iteration >= 1 => qlog.attempts <= qcall.max_iteration - 1
        /\ qlog.accepted => qlog.attempts < qcall.max_iteration
        /\ qlog.png # << >> => qlog.attempts < qcall.max_iteration
        /\ qcall.max_iteration <= 1 =>
              /\ qlog.attempts = 0
              /\ qlog.png = << >>
              /\ pc = "done" => qlog.raised.tmpl = "max iteration exceeded"

\* C19 witness: the code returned by attempt N - 1, the last one the budget
\* N allows, was rendered
QrAttemptBudgetWitness ==
    /\ pc = "done"
    /\ qlog.accepted
    /\ qcall.max_iteration = MaxIter
    /\ qlog.attempts = MaxIter - 1
    /\ itercnt = MaxIter - 1
    /\ Len(qlog.png) = 1

\* C20: decode checks no range: for every integer x >= 0 and parameters
\* ln >= 1, mx >= 1 it returns, without an exception, ln indices d with
\* d[1] * mx^0 + ... + d[ln] * mx^(ln - 1) = x, every index but the last in
\* [0, mx), the last being floor(x / mx^(ln - 1)), which is mx or more when
\* x >= mx^ln.
DecodeUnvalidated ==
    (ret.op = "decode" /\ (ret.pre # <<0, 0>> \/ slot # << >>)) =>
        /\ ret.err = ""
        /\ ln >= 1
        /\ mx >= 1
        /\ Len(ret.dec) = ln
        /\ PositionalSum(ret.dec, mx) = ret.arg
        /\ \A i \in 1..(ln - 1) : 0 <= ret.dec[i] /\ ret.dec[i] < mx
        /\ ret.dec[ln] = ret.arg \div Pow(mx, ln - 1)
        /\ ret.dec[ln] >= mx <=> ret.arg >= Pow(mx, ln)

\* C20 witness: an integer beyond the range of two indices to a radix of 2
\* or more was decoded, the last index being the radix or more
DecodeUnvalidatedWitness ==
    /\ ret.op = "decode"
    /\ ret.err = ""
    /\ ln >= 2
    /\ mx >= 2
    /\ ret.arg >= Pow(mx, ln)
    /\ ret.dec[ln] >= mx
    /\ ret.dec[1] > 0

====
